---------------------------- MODULE Spec2Model ----------------------------
(***************************************************************************)
(* A model of add_category_tags (src/_add_gene_list.py): the schema        *)
(* reconciliation, the paginated fetch and the per-record tag diff, run    *)
(* against a remote database service whose responses are nondeterministic. *)
(***************************************************************************)
EXTENDS Integers, Sequences, FiniteSets, TLC

(***************************************************************************)
(* Bounds of the model.                                                    *)
(***************************************************************************)
MaxPages == 2        \* records held by the remote collection
MaxRuns == 2         \* successive calls of add_category_tags

(***************************************************************************)
(* Values.                                                                 *)
(***************************************************************************)
None == "<None>"
Absent == [type |-> "absent", value |-> <<>>]

ToSet(s) == {s[k] : k \in 1..Len(s)}

Min(a, b) == IF a < b THEN a ELSE b

\* Notion's maximum page size, min(batch_size, 100)
NotionMaxPageSize == 100

\* for prop_name in ["gene_name", "Gene Name", "Gene", "Name", "Title"]
candidate_names == <<"gene_name", "Gene Name", "Gene", "Name", "Title">>

\* colors = ["red", "blue", ..., "gray"]
colors == <<"red", "blue", "green", "yellow", "purple", "pink", "orange", "brown", "gray">>

\* The values of the batch_size argument: a record per batch, or two.
BatchSizes == {1, 2}

\* The statuses the remote service may answer a request with.
Statuses == {200, 204, 500}

\* The remote service carries out a request iff it answers with a 2xx status.
RemoteApplies(status) == status \in 200..299

(***************************************************************************)
(* Inputs: the category maps, the remote schemas and the remote records.   *)
(***************************************************************************)
Cat(n, g) == [name |-> n, genes |-> g]

\* gene_categories: a dict, iterated in insertion order, of name -> gene list
CategoryMaps ==
    { <<>>,
      <<Cat("A", <<"g1">>), Cat("B", <<"g2">>)>>,
      <<Cat("B", <<"g1", "g2">>), Cat("A", <<"g1", "g1">>)>> }

Opt(n, c) == [name |-> n, color |-> c]

\* database["properties"][multiselect_column], or Absent
Schemas ==
    { Absent,
      [type |-> "rich_text", value |-> <<>>],
      [type |-> "multi_select", value |-> <<Opt("X", "gray")>>],
      [type |-> "multi_select", value |-> <<Opt("A", "pink"), Opt("X", "gray")>>],
      [type |-> "multi_select", value |-> <<Opt("X", "gray"), Opt("B", "brown"), Opt("A", "pink")>>] }

NoProps == [n \in ToSet(candidate_names) |-> Absent]

Prop(t, v) == [type |-> t, value |-> v]

\* page["properties"] restricted to the identifier candidates: no candidate
\* present; a title under the first candidate; an empty first candidate, then
\* a select, then a rich text
Unidentified == NoProps

TitleG1 == [NoProps EXCEPT !["gene_name"] = Prop("title", <<"g1">>)]

SelectG2 == [NoProps EXCEPT !["gene_name"] = Prop("rich_text", <<>>),
                            !["Gene"] = Prop("select", <<"g2">>),
                            !["Title"] = Prop("rich_text", <<"g1">>)]

IdentProps == {Unidentified, TitleG1, SelectG2}

Rec(p, t) == [properties |-> p, column |-> Prop("multi_select", t)]

\* the records of a collection whose tag column exists
TaggedPages ==
    { Rec(Unidentified, <<"A", "X">>),
      Rec(TitleG1, <<>>),
      Rec(TitleG1, <<"B", "A">>),
      Rec(SelectG2, <<"X">>),
      Rec(SelectG2, <<"A", "X">>) }

OptionNames(schema) == {schema.value[k].name : k \in 1..Len(schema.value)}

\* The records a collection with the given schema can hold: the tag field
\* exists on a record iff the column exists, and holds only schema options.
PagesFor(schema) ==
    IF schema.type = "multi_select"
    THEN { p \in TaggedPages : ToSet(p.column.value) \subseteq OptionNames(schema) }
    ELSE { [properties |-> p, column |-> schema] : p \in IdentProps }

SeqsUpTo(S, n) == UNION { [1..k -> S] : k \in 0..n }

(***************************************************************************)
(* The pure computations of add_category_tags.                             *)
(***************************************************************************)
EmptyDict == [x \in {} |-> <<>>]

\* if gene not in gene_to_categories: ... = []; ....append(category)
RECURSIVE AddGenes(_, _, _)
AddGenes(d, category, genes) ==
    IF genes = <<>> THEN d
    ELSE LET gene == Head(genes)
             d1 == IF gene \in DOMAIN d
                   THEN [d EXCEPT ![gene] = Append(@, category)]
                   ELSE (gene :> <<category>>) @@ d
         IN  AddGenes(d1, category, Tail(genes))

RECURSIVE BuildGeneToCategories(_, _)
BuildGeneToCategories(d, gene_categories) ==
    IF gene_categories = <<>> THEN d
    ELSE BuildGeneToCategories(
             AddGenes(d, Head(gene_categories).name, Head(gene_categories).genes),
             Tail(gene_categories))

\* the reverse mapping gene -> categories
gene_to_categories(gene_categories) ==
    BuildGeneToCategories(EmptyDict, gene_categories)

\* all_tags = list(gene_categories.keys())
all_tags(gene_categories) ==
    [k \in 1..Len(gene_categories) |-> gene_categories[k].name]

\* existing_options: the column's option list, [] when the column is absent
existing_options(schema) ==
    IF schema # Absent /\ schema.type = "multi_select" THEN schema.value ELSE <<>>

existing_names(options) == {options[k].name : k \in 1..Len(options)}

\* a variant of ColorFor that starts at the second colour
ColorForShifted(i) == colors[((i + 1) % Len(colors)) + 1]

\* the colour of the tag at position i (from 0) of all_tags
ColorFor(i) == colors[(i % Len(colors)) + 1]

\* for i, tag in enumerate(all_tags): if tag not in existing_names: append
RECURSIVE AppendNewOptions(_, _, _, _)
AppendNewOptions(options, tags, names, k) ==
    IF k > Len(tags) THEN options
    ELSE AppendNewOptions(
             IF tags[k] \notin names
             THEN Append(options, Opt(tags[k], ColorFor(k - 1)))
             ELSE options,
             tags, names, k + 1)

\* a variant of new_options that puts the new options first
new_options_first(options, tags) ==
    AppendNewOptions(<<>>, tags, existing_names(options), 1) \o options

\* a variant of new_options that appends nothing
new_options_unchanged(options, tags) == options

new_options(options, tags) ==
    AppendNewOptions(options, tags, existing_names(options), 1)

\* a variant of tags_to_add that does not look at the existing names
tags_to_add_all(options, tags) == tags

tags_to_add(options, tags) ==
    SelectSeq(tags, LAMBDA t : t \notin existing_names(options))

\* a variant of SchemaPatchNeeded that ignores dry_run
SchemaPatchNeededAlways(add, dry) == add # <<>>

\* if tags_to_add and not dry_run
SchemaPatchNeeded(add, dry) == add # <<>> /\ ~dry

\* a variant of Matches that accepts a value of any type
MatchesAnyType(prop) == prop # Absent /\ prop.value # <<>>

\* a candidate property matches: it is present, of a recognised type, not empty
Matches(prop) ==
    /\ prop # Absent
    /\ prop.type \in {"title", "rich_text", "select"}
    /\ prop.value # <<>>

\* the candidate loop: the first matching candidate wins (break)
RECURSIVE ResolveFrom(_, _)
ResolveFrom(properties, k) ==
    IF k > Len(candidate_names) THEN None
    ELSE IF Matches(properties[candidate_names[k]])
         THEN properties[candidate_names[k]].value[1]
         ELSE ResolveFrom(properties, k + 1)

gene_name_of(page) == ResolveFrom(page.properties, 1)

\* Python truthiness of gene_name: neither None nor the empty string
Truthy(gene_name) == gene_name # None /\ gene_name # ""

\* existing_tags: the names held by the record's tag field
existing_tags(page) ==
    IF page.column # Absent /\ page.column.type = "multi_select"
    THEN page.column.value ELSE <<>>

\* a variant of preserved_tags that keeps the category tags
preserved_tags_unfiltered(existing, tags) == existing

preserved_tags(existing, tags) ==
    SelectSeq(existing, LAMBDA t : t \notin ToSet(tags))

category_tags(gene_name, g2c) ==
    IF Truthy(gene_name) /\ gene_name \in DOMAIN g2c THEN g2c[gene_name] ELSE <<>>

new_tags(page, gene_categories) ==
    preserved_tags(existing_tags(page), all_tags(gene_categories))
        \o category_tags(gene_name_of(page), gene_to_categories(gene_categories))

\* a variant of NeedsUpdate that compares the lists
NeedsUpdateAsLists(existing, new) == existing # new

\* if existing_set != new_set
NeedsUpdate(existing, new) == ToSet(existing) # ToSet(new)

(***************************************************************************)
(* The state: the arguments, the remote service, and the position and the  *)
(* locals of the running call.                                             *)
(***************************************************************************)
VARIABLES
    gene_categories,   \* argument: the category map, the same in every run
    batch_size,        \* argument: the page-size hint, the same in every run
    dry_run,           \* argument: simulation mode of the current run
    remote_schema,     \* remote: the tag column of the database, or Absent
    remote_pages,      \* remote: the records, in the order the service returns them
    run,               \* the number of the current call, 0 before the first
    pc,                \* position of the current call
    local,             \* locals of the current call
    stats,             \* the stats dict, NoStats before step 3
    summary,           \* what the call printed as summary and returned, or NoStats
    requests,          \* the remote requests the current call issued, in order
    history,           \* the finished calls
    trace,             \* the calls of wait_if_needed and the requests, in order
    clock,             \* what time.time() returns, in ticks
    rate_limiter,      \* the RateLimiter object
    waits,             \* the calls of wait_if_needed that returned
    api,               \* the call of make_api_request_with_retry
    email,             \* the call of handle_email, the task database, the notifications
    creator,           \* the NotionPageCreator object, its cache file, its workers
    flow               \* the call of NotionPageCreator.run

engine_vars == <<gene_categories, batch_size, dry_run, remote_schema, remote_pages,
                 run, pc, local, stats, summary, requests, history, trace>>

limiter_vars == <<clock, rate_limiter, waits>>

app_vars == <<api, email, creator, flow>>

vars == <<engine_vars, limiter_vars, app_vars>>

NoLocals ==
    [existing_options |-> <<>>, new_options |-> <<>>, tags_to_add |-> <<>>,
     all_pages |-> <<>>, has_more |-> TRUE, start_cursor |-> 0, batch_num |-> 0,
     i |-> 1, gene_name |-> None]

InitialStats(pages) ==
    [total_pages |-> Len(pages), pages_updated |-> 0, pages_skipped |-> 0,
     genes_found |-> 0, genes_with_categories |-> 0, tags_added |-> 0,
     tags_removed |-> 0, errors |-> <<>>]

\* the value of stats and of the summary while there is none
NoStats == [InitialStats(<<>>) EXCEPT !.total_pages = -1]

Request(kind, status, cursor, page_id, body) ==
    [kind |-> kind, status |-> status, cursor |-> cursor, page_id |-> page_id,
     body |-> body]

\* a variant of IsSuccess that does not test the status
IsSuccessAlways(status) == TRUE

\* the success test of the schema read, the schema patch and the query
IsSuccess(status) == status = 200

\* the success test of the page patch
IsPatchSuccess(status) == status = 200

\* a variant of PcAfterPatch that goes back to the fetch after a page patch
PcAfterPatchRefetch(status) == "query"

\* a variant of PcAfterPatch that raises on a failed page patch
PcAfterPatchFatal(status) == IF status = 200 THEN "process" ELSE "raised"

\* where the call goes on after the answer to a page patch: to the next record
PcAfterPatch(status) == "process"

\* a variant of IsWrongColumnType that accepts a column of any type
IsWrongColumnTypeNever(schema) == FALSE

\* the column exists and is not a multi-select: raise ValueError
IsWrongColumnType(schema) == schema # Absent /\ schema.type # "multi_select"

\* a variant of NextRecord that stays on a record whose patch failed, while
\* the call has issued fewer than four requests
NextRecordRetry(i, status) == IF status = 200 \/ Len(requests) >= 4 THEN i + 1 ELSE i

\* the for loop goes on to the next record whatever the answer to the patch
NextRecord(i, status) == i + 1

\* a variant of WaitBefore without the wait before a page patch
WaitBeforeExceptPagePatch(kind) == IF kind = "page_patch" THEN <<>> ELSE <<"wait">>

\* rate_limiter.wait_if_needed() is called before each request
WaitBefore(kind) == <<"wait">>

\* the call of wait_if_needed and the request that follows it
Calls(kind) == WaitBefore(kind) \o <<kind>>

\* the events of the trace, with the time they happen at
Stamped(events, time) == [k \in 1..Len(events) |-> [event |-> events[k], time |-> time]]

\* the unconditional break that ends the body of "while has_more"
BreakAfterBatch == TRUE

\* RateLimiter(max_per_second=3)
MaxPerSecond == 3

\* the ticks of the clock in a second
TicksPerSecond == 4 * MaxPerSecond

\* self.min_interval = 1.0 / max_per_second, in ticks
min_interval(max_per_second) == TicksPerSecond \div max_per_second

\* RateLimiter.__init__
RateLimiter(max_per_second) ==
    [max_per_second |-> max_per_second, min_interval |-> min_interval(max_per_second),
     last_request_time |-> 0]

\* rate_limiter = RateLimiter(max_per_second=3)
NewRateLimiter == RateLimiter(MaxPerSecond)

\* a variant of sleep_time that never sleeps
sleep_time_none(time_since_last, interval) == 0

\* the time wait_if_needed sleeps: min_interval - time_since_last if the
\* interval has not passed, nothing otherwise
sleep_time(time_since_last, interval) ==
    IF time_since_last < interval THEN interval - time_since_last ELSE 0

\* RateLimiter.wait_if_needed: the clock is read, the call sleeps, and the
\* clock is read again lag ticks after the sleep was due to end.
wait_if_needed(lag) ==
    LET current_time == clock
        time_since_last == current_time - rate_limiter.last_request_time
        slept == sleep_time(time_since_last, rate_limiter.min_interval)
    IN  /\ clock' = current_time + slept + lag
        /\ rate_limiter' = [rate_limiter EXCEPT !.last_request_time = clock']
        /\ waits' = Append(waits, [called |-> current_time, slept |-> slept,
                                   returned |-> clock'])

\* A request is issued: the limiter is called first, and the request follows
\* with no time in between.
Issue(kind) ==
    /\ IF WaitBefore(kind) # <<>> THEN wait_if_needed(0) ELSE UNCHANGED limiter_vars
    /\ trace' = trace \o Stamped(Calls(kind), clock')

\* make_api_request_with_retry is not running
NoApi ==
    [pc |-> "idle", max_retries |-> 0, attempt |-> 0, posts |-> <<>>]

\* handle_email is not running
NoEmail ==
    [pc |-> "idle", tasks |-> <<>>, i |-> 1, task_pages |-> <<>>,
     notifications |-> <<>>, printed |-> <<>>, service_failed |-> FALSE]

\* no NotionPageCreator
NoCreator ==
    [databases |-> <<>>, refresh_in_progress |-> FALSE, refresh_thread |-> 0,
     workers |-> <<>>, calls |-> 0, cache |-> "none", cached |-> <<>>, remote |-> <<>>]

\* NotionPageCreator.run is not running
NoFlow ==
    [pc |-> "idle", database_id |-> None, validated |-> FALSE, selected_database |-> <<>>,
     title |-> "", content |-> <<>>, events |-> <<>>, pages |-> <<>>]

\* the variables of the other programs, while none of them runs
AppIdle ==
    /\ api = NoApi
    /\ email = NoEmail
    /\ creator = NoCreator
    /\ flow = NoFlow

Init ==
    /\ gene_categories \in CategoryMaps
    /\ batch_size \in BatchSizes
    /\ dry_run = FALSE
    /\ remote_schema \in Schemas
    /\ remote_pages \in SeqsUpTo(PagesFor(remote_schema), MaxPages)
    /\ run = 0
    /\ pc = "idle"
    /\ local = NoLocals
    /\ stats = NoStats
    /\ summary = NoStats
    /\ requests = <<>>
    /\ history = <<>>
    /\ trace = <<>>
    /\ clock = TicksPerSecond
    /\ rate_limiter = NewRateLimiter
    /\ waits = <<>>
    /\ AppIdle

Args == <<gene_categories, batch_size>>

\* A call of add_category_tags begins (lines 202-219): the first call, or the
\* next call with the same arguments after a call that returned.
StartRun ==
    /\ pc \in {"idle", "returned"}
    /\ run < MaxRuns
    /\ run' = run + 1
    /\ dry_run' \in BOOLEAN
    /\ pc' = "schema_read"
    /\ local' = NoLocals
    /\ stats' = NoStats
    /\ summary' = NoStats
    /\ requests' = <<>>
    /\ history' = IF run = 0 THEN history
                  ELSE Append(history, [dry_run |-> dry_run, stats |-> summary])
    /\ trace' = <<>>
    /\ rate_limiter' = NewRateLimiter
    /\ waits' = <<>>
    /\ UNCHANGED <<app_vars, Args, remote_schema, remote_pages, clock>>

\* Step 1, first half: the schema read and the option list to persist.
SchemaRead ==
    /\ pc = "schema_read"
    /\ \E status \in Statuses :
        /\ requests' = Append(requests, Request("schema_read", status, 0, 0, <<>>))
        /\ Issue("schema_read")
        /\ IF ~IsSuccess(status)
           THEN /\ pc' = "raised"
                /\ UNCHANGED local
           ELSE IF IsWrongColumnType(remote_schema)
           THEN /\ pc' = "raised"
                /\ UNCHANGED local
           ELSE LET eo == existing_options(remote_schema)
                    tags == all_tags(gene_categories)
                    add == tags_to_add(eo, tags)
                IN  /\ local' = [local EXCEPT !.existing_options = eo,
                                              !.new_options = new_options(eo, tags),
                                              !.tags_to_add = add]
                    /\ pc' = IF SchemaPatchNeeded(add, dry_run)
                             THEN "schema_patch" ELSE "query"
    /\ UNCHANGED <<app_vars, Args, dry_run, remote_schema, remote_pages, run, stats, summary,
                   history>>

\* The remote effect of a schema patch: the column holds the options sent, and
\* a column that is created appears, empty, on every record.
PatchedSchema(options) == Prop("multi_select", options)

PagesAfterSchemaPatch ==
    [k \in 1..Len(remote_pages) |->
        IF remote_pages[k].column = Absent
        THEN [remote_pages[k] EXCEPT !.column = Prop("multi_select", <<>>)]
        ELSE remote_pages[k]]

\* Step 1, second half: the schema patch.
SchemaPatch ==
    /\ pc = "schema_patch"
    /\ \E status \in Statuses :
        /\ requests' = Append(requests,
                              Request("schema_patch", status, 0, 0, local.new_options))
        /\ Issue("schema_patch")
        /\ IF RemoteApplies(status)
           THEN /\ remote_schema' = PatchedSchema(local.new_options)
                /\ remote_pages' = PagesAfterSchemaPatch
           ELSE UNCHANGED <<remote_schema, remote_pages>>
        /\ pc' = IF IsSuccess(status) THEN "query" ELSE "raised"
    /\ UNCHANGED <<app_vars, Args, dry_run, run, local, stats, summary, history>>

\* The remote answer to a query: the batch that starts at the cursor.
FirstIndex(cursor) == IF cursor = 0 THEN 1 ELSE cursor

LastIndex(cursor, page_size) ==
    Min(FirstIndex(cursor) + page_size - 1, Len(remote_pages))

Fetched(k) ==
    [id |-> k, properties |-> remote_pages[k].properties,
     column |-> remote_pages[k].column]

QueryResults(cursor, page_size) ==
    [j \in 1..(LastIndex(cursor, page_size) - FirstIndex(cursor) + 1) |->
        Fetched(FirstIndex(cursor) + j - 1)]

QueryHasMore(cursor, page_size) == LastIndex(cursor, page_size) < Len(remote_pages)

QueryNextCursor(cursor, page_size) ==
    IF QueryHasMore(cursor, page_size) THEN LastIndex(cursor, page_size) + 1 ELSE 0

\* Step 2: one pass through the body of "while has_more".
Query ==
    /\ pc = "query"
    /\ local.has_more
    /\ \E status \in Statuses :
        LET page_size == Min(batch_size, NotionMaxPageSize)
            cursor == local.start_cursor
            pages == local.all_pages \o QueryResults(cursor, page_size)
            more == QueryHasMore(cursor, page_size)
        IN  /\ requests' = Append(requests, Request("query", status, cursor, 0, <<>>))
            /\ Issue("query")
            /\ IF ~IsSuccess(status)
               THEN /\ pc' = "raised"
                    /\ local' = [local EXCEPT !.batch_num = @ + 1]
                    /\ UNCHANGED stats
               ELSE /\ local' = [local EXCEPT !.batch_num = @ + 1,
                                              !.all_pages = pages,
                                              !.has_more = more,
                                              !.start_cursor = QueryNextCursor(cursor, page_size)]
                    /\ IF BreakAfterBatch \/ ~more
                       THEN /\ pc' = "process"
                            /\ stats' = InitialStats(pages)
                       ELSE /\ pc' = "query"
                            /\ UNCHANGED stats
    /\ UNCHANGED <<app_vars, Args, dry_run, remote_schema, remote_pages, run, summary, history>>

\* The statistics after the record is classified, before any page patch.
CountGene(st, gene_name, g2c) ==
    [st EXCEPT !.genes_found = IF Truthy(gene_name) THEN @ + 1 ELSE @,
               !.genes_with_categories =
                   IF Truthy(gene_name) /\ gene_name \in DOMAIN g2c THEN @ + 1 ELSE @]

CountDiff(st, existing, new) ==
    [st EXCEPT !.tags_added = @ + Cardinality(ToSet(new) \ ToSet(existing)),
               !.tags_removed = @ + Cardinality(ToSet(existing) \ ToSet(new))]

\* Step 3: one pass through the body of "for i, page in enumerate(all_pages, 1)".
ProcessPage ==
    /\ pc = "process"
    /\ local.i <= Len(local.all_pages)
    /\ LET page == local.all_pages[local.i]
           gene_name == gene_name_of(page)
           g2c == gene_to_categories(gene_categories)
           existing == existing_tags(page)
           new == new_tags(page, gene_categories)
           st1 == CountGene(stats, gene_name, g2c)
       IN  IF NeedsUpdate(existing, new)
           THEN LET st2 == CountDiff(st1, existing, new)
                IN  IF ~dry_run
                    THEN \E status \in Statuses :
                           /\ requests' = Append(requests,
                                  Request("page_patch", status, 0, page.id, new))
                           /\ Issue("page_patch")
                           /\ remote_pages' =
                                  IF RemoteApplies(status)
                                  THEN [remote_pages EXCEPT ![page.id].column =
                                           Prop("multi_select", new)]
                                  ELSE remote_pages
                           /\ stats' =
                                  IF IsPatchSuccess(status)
                                  THEN [st2 EXCEPT !.pages_updated = @ + 1]
                                  ELSE [st2 EXCEPT !.errors = Append(@, page.id)]
                           /\ pc' = PcAfterPatch(status)
                           /\ local' = [local EXCEPT !.i = NextRecord(@, status),
                                                     !.gene_name = gene_name]
                    ELSE /\ stats' = [st2 EXCEPT !.pages_updated = @ + 1]
                         /\ local' = [local EXCEPT !.i = @ + 1, !.gene_name = gene_name]
                         /\ UNCHANGED <<requests, remote_pages, pc, trace, limiter_vars>>
           ELSE /\ stats' = [st1 EXCEPT !.pages_skipped = @ + 1]
                /\ local' = [local EXCEPT !.i = @ + 1, !.gene_name = gene_name]
                /\ UNCHANGED <<requests, remote_pages, pc, trace, limiter_vars>>
    /\ UNCHANGED <<app_vars, Args, dry_run, remote_schema, run, summary, history>>

\* The summary is printed and stats returned: lines 450-472.
Return ==
    /\ pc = "process"
    /\ local.i > Len(local.all_pages)
    /\ pc' = "returned"
    /\ summary' = stats
    /\ UNCHANGED <<app_vars, Args, dry_run, remote_schema, remote_pages, run, local, stats,
                   requests, history, trace, limiter_vars>>

Next ==
    \/ StartRun
    \/ SchemaRead
    \/ SchemaPatch
    \/ Query
    \/ ProcessPage
    \/ Return

Spec == Init /\ [][Next]_vars

(***************************************************************************)
(* Vocabulary of the properties.                                           *)
(***************************************************************************)
RequestsOf(kind) == SelectSeq(requests, LAMBDA r : r.kind = kind)

Patches == {"schema_patch", "page_patch"}

NoPatchRequest == \A k \in 1..Len(requests) : requests[k].kind \notin Patches

\* the fetched copy of the record a page patch addresses
FetchedPage(id) == CHOOSE p \in ToSet(local.all_pages) : p.id = id

CategoryNames == {gene_categories[k].name : k \in 1..Len(gene_categories)}

\* the categories whose member list contains the identifier
Membership(gene_name) ==
    {gene_categories[k].name :
        k \in {j \in 1..Len(gene_categories) :
                 gene_name \in ToSet(gene_categories[j].genes)}}

Resolved(page) == Truthy(gene_name_of(page))

MembershipOf(page) ==
    IF Resolved(page) THEN Membership(gene_name_of(page)) ELSE {}

PreviousRun == history[run - 1]

\* the previous call was a non-simulation call that returned without errors
PreviousRunApplied ==
    /\ run >= 2
    /\ ~PreviousRun.dry_run
    /\ PreviousRun.stats.errors = <<>>

UpdatedNow == IF stats = NoStats THEN 0 ELSE stats.pages_updated

\* C1 as stated: whatever the first call did, a second call with the same
\* category map issues no page patch and no schema patch and reports
\* pages_updated = 0.
C1_IdempotenceAsStated ==
    run >= 2 => NoPatchRequest /\ UpdatedNow = 0

\* C1, amended: when the preceding call was a non-simulation call that
\* returned with an empty error list, a call with the same arguments issues no
\* page patch and no schema patch and reports pages_updated = 0.
C1_Idempotence ==
    PreviousRunApplied => NoPatchRequest /\ UpdatedNow = 0

\* C1 witness: a second call has returned after a first that wrote to records
\* and to the schema.
C1_Witness ==
    /\ run = 2
    /\ pc = "returned"
    /\ ~dry_run
    /\ PreviousRunApplied
    /\ PreviousRun.stats.pages_updated > 0
    /\ PreviousRun.stats.tags_removed > 0
    /\ summary.total_pages > 1

\* C2: the tag set sent in a page patch is the record's original tags minus
\* every category name, plus the categories whose member list contains the
\* record's resolved identifier.
C2_TagSetCorrectness ==
    \A k \in 1..Len(requests) :
        requests[k].kind = "page_patch" =>
            LET page == FetchedPage(requests[k].page_id)
            IN  ToSet(requests[k].body) =
                    (ToSet(existing_tags(page)) \ CategoryNames)
                        \cup MembershipOf(page)

\* C2 witness: a patch that drops a stale category, keeps a foreign tag and
\* adds the category of the record.
C2_Witness ==
    \E k \in 1..Len(requests) :
        /\ requests[k].kind = "page_patch"
        /\ ToSet(requests[k].body) = {"X", "B"}
        /\ ToSet(existing_tags(FetchedPage(requests[k].page_id))) = {"A", "X"}

\* the number of batches the remote service delivers the collection in
NumBatches(page_size) ==
    IF Len(remote_pages) = 0 THEN 1
    ELSE (Len(remote_pages) + page_size - 1) \div page_size

FetchDone == pc \in {"process", "returned"}

\* C3: once the fetch is over, one query was issued per batch of the remote
\* collection, each after the first with the cursor of the previous answer,
\* and every record of the collection has been accumulated.
C3_PaginationCompleteness ==
    FetchDone =>
        /\ Len(RequestsOf("query")) = NumBatches(Min(batch_size, NotionMaxPageSize))
        /\ Len(local.all_pages) = Len(remote_pages)
        /\ \A k \in 2..Len(RequestsOf("query")) :
               RequestsOf("query")[k].cursor =
                   QueryNextCursor(RequestsOf("query")[k - 1].cursor,
                                   Min(batch_size, NotionMaxPageSize))

\* C4: no page patch is issued for a record whose identifier is unresolved,
\* and such a record leaves tags_added, tags_removed and
\* genes_with_categories as they were; it is counted in total_pages.
C4_UnresolvedSkipped ==
    /\ stats # NoStats => stats.total_pages = Len(local.all_pages)
    /\ \A k \in 1..Len(requests) :
          requests[k].kind = "page_patch" =>
              Resolved(FetchedPage(requests[k].page_id))
    /\ (stats # NoStats /\ \A k \in 1..Len(local.all_pages) :
                            ~Resolved(local.all_pages[k]))
           => stats.tags_added = 0 /\ stats.tags_removed = 0
                 /\ stats.genes_with_categories = 0

\* the records already classified by the loop of step 3
Processed == IF stats = NoStats THEN {} ELSE 1..(local.i - 1)

SameSets(page) ==
    ToSet(existing_tags(page)) = ToSet(new_tags(page, gene_categories))

\* C5: a page patch is sent only when the resulting tags differ from the
\* current tags as sets; a record whose sets are equal is counted in
\* pages_skipped and gets no request.
C5_WriteOnlyOnSetDifference ==
    /\ \A k \in 1..Len(requests) :
          requests[k].kind = "page_patch" =>
              ToSet(requests[k].body) #
                  ToSet(existing_tags(FetchedPage(requests[k].page_id)))
    /\ stats # NoStats =>
          stats.pages_skipped =
              Cardinality({k \in Processed : SameSets(local.all_pages[k])})

\* C5 witness: a record whose resulting list differs from its current list in
\* order and duplicates only has been counted as unchanged.
C5_Witness ==
    /\ stats # NoStats
    /\ stats.pages_skipped > 0
    /\ \E k \in Processed :
          /\ SameSets(local.all_pages[k])
          /\ existing_tags(local.all_pages[k]) #
                 new_tags(local.all_pages[k], gene_categories)
    /\ ~dry_run

Changed == {k \in Processed : ~SameSets(local.all_pages[k])}

\* C6: a simulation call issues no schema patch and no page patch, and counts
\* in pages_updated every record whose tag set would change.
C6_DryRunNoWrites ==
    dry_run =>
        /\ NoPatchRequest
        /\ \A k \in 1..Len(requests) : requests[k].kind \in {"schema_read", "query"}
        /\ stats # NoStats => stats.pages_updated = Cardinality(Changed)

\* C6 witness: a simulation call has returned that would have patched the
\* schema and a record.
C6_Witness ==
    /\ dry_run
    /\ pc = "returned"
    /\ local.tags_to_add # <<>>
    /\ summary.pages_updated > 0
    /\ summary.tags_added > 0

FatalKinds == {"schema_read", "schema_patch", "query"}

Failed(r) == r.status \notin 200..299

\* C7: a non-success answer to the schema read, the schema patch or a query
\* makes the call raise, and is the last request of the call: no query and no
\* page patch follows it, and no record is reconciled.
C7_FatalErrorsAbort ==
    \A k \in 1..Len(requests) :
        (requests[k].kind \in FatalKinds /\ Failed(requests[k])) =>
            /\ pc = "raised"
            /\ k = Len(requests)
            /\ stats = NoStats

\* C7 witness: a call raised on a failed query, after it patched the schema.
C7_Witness ==
    /\ pc = "raised"
    /\ Len(requests) = 3
    /\ requests[2].kind = "schema_patch"
    /\ requests[3].kind = "query"
    /\ requests[3].status = 500
    /\ Len(remote_pages) > 0

Occurrences(seq, x) == Cardinality({k \in 1..Len(seq) : seq[k] = x})

PagePatches == RequestsOf("page_patch")

\* C8: a failed page patch leaves exactly one entry for its record in
\* stats["errors"] and never makes the call raise: the page patches follow
\* the fetch order, and the call returns its statistics after it has sent a
\* patch for every fetched record whose tag set changes.
C8_PatchFailureNonFatal ==
    /\ \A k \in 1..Len(PagePatches) :
          Failed(PagePatches[k]) =>
              Occurrences(stats.errors, PagePatches[k].page_id) = 1
    /\ \A k \in 2..Len(PagePatches) :
          PagePatches[k - 1].page_id < PagePatches[k].page_id
    /\ pc = "raised" => PagePatches = <<>>
    /\ (PagePatches # <<>> /\ local.i > Len(local.all_pages)) =>
          /\ pc \in {"process", "returned"}
          /\ Len(PagePatches) =
                 Cardinality({k \in 1..Len(local.all_pages) :
                                 ~SameSets(local.all_pages[k])})
    /\ pc = "returned" => summary = stats /\ local.i = Len(local.all_pages) + 1

\* C8 witness: a call returned after the patch of its first record failed and
\* the patch of its second succeeded.
C8_Witness ==
    /\ pc = "returned"
    /\ Len(PagePatches) = 2
    /\ PagePatches[1].status = 500
    /\ PagePatches[2].status = 200
    /\ summary.errors = <<PagePatches[1].page_id>>
    /\ summary.pages_updated = 1

SchemaKinds == {"schema_read", "schema_patch"}

AbortedInSchemaHandling ==
    /\ pc = "raised"
    /\ requests[Len(requests)].kind \in SchemaKinds

\* C9 as stated: a call aborted by a fatal error in schema handling still
\* prints and returns a final summary.
C9_SummaryOnSchemaAbortAsStated ==
    AbortedInSchemaHandling => summary # NoStats

\* C9, amended: when the schema read or the schema patch is answered with a
\* non-success status the call raises, and no summary is printed or returned:
\* the statistics do not exist yet.
C9_NoSummaryOnSchemaAbort ==
    /\ \A k \in 1..Len(requests) :
          (requests[k].kind \in SchemaKinds /\ Failed(requests[k])) =>
              pc = "raised" /\ summary = NoStats /\ stats = NoStats
    /\ AbortedInSchemaHandling => summary = NoStats

\* C9 witness: a call raised on a failed schema patch.
C9_Witness ==
    /\ AbortedInSchemaHandling
    /\ requests[Len(requests)].kind = "schema_patch"
    /\ requests[Len(requests)].status = 500
    /\ summary = NoStats

IsPrefix(s, t) == Len(s) <= Len(t) /\ SubSeq(t, 1, Len(s)) = s

OptionsNow == IF remote_schema.type = "multi_select" THEN remote_schema.value ELSE <<>>

SchemaPatchSent ==
    /\ Len(requests') = Len(requests) + 1
    /\ requests'[Len(requests')].kind = "schema_patch"

\* C10: the option list sent in a schema patch starts with the option list
\* the schema holds, every option at its place with its name and colour, and
\* goes on with one option for each category the schema does not hold yet.
C10_NonDestructiveSchemaGrowth ==
    [][SchemaPatchSent =>
          LET sent == requests'[Len(requests')].body
              old == OptionsNow
              added == [k \in 1..(Len(sent) - Len(old)) |-> sent[Len(old) + k].name]
          IN  /\ IsPrefix(old, sent)
              /\ ToSet(added) = CategoryNames \ {old[k].name : k \in 1..Len(old)}
              /\ Cardinality(ToSet(added)) = Len(added)]_vars

\* C10 witness: a schema patch was sent that keeps two options and adds one.
C10_Witness ==
    \E k \in 1..Len(requests) :
        /\ requests[k].kind = "schema_patch"
        /\ Len(requests[k].body) = 3
        /\ requests[k].body[1] = Opt("A", "pink")
        /\ requests[k].body[2] = Opt("X", "gray")
        /\ requests[k].body[3].name = "B"

SchemaStepDone == pc \in {"query", "process", "returned"}

\* C11: once the schema step of a non-simulation call has succeeded, the
\* option names of the remote schema include every key of the category map,
\* whatever the schema was, a missing column included.
C11_SchemaCoversCategories ==
    (~dry_run /\ SchemaStepDone) =>
        CategoryNames \subseteq {OptionsNow[k].name : k \in 1..Len(OptionsNow)}

\* C11 witness: the schema step of a non-simulation call has created the
\* missing column with both categories.
C11_Witness ==
    /\ ~dry_run
    /\ run = 1
    /\ pc = "query"
    /\ local.existing_options = <<>>
    /\ Len(requests) = 2
    /\ requests[2].kind = "schema_patch"
    /\ Cardinality(CategoryNames) = 2
    /\ remote_schema.type = "multi_select"

AllPresent ==
    CategoryNames \subseteq {OptionsNow[k].name : k \in 1..Len(OptionsNow)}

\* C12: a schema patch is sent only by a non-simulation call, only while a
\* category name is missing from the option names of the schema, and at most
\* once in a call; a call that leaves the schema read without a schema patch
\* is a simulation or finds every category name present.
C12_SchemaWritesMinimal ==
    [][/\ SchemaPatchSent =>
             /\ ~dry_run
             /\ ~AllPresent
             /\ RequestsOf("schema_patch") = <<>>
       /\ (pc = "schema_read" /\ pc' = "query") => (dry_run \/ AllPresent)
       /\ (pc = "schema_read" /\ pc' = "schema_patch") => (~dry_run /\ ~AllPresent)
       /\ (pc = "schema_patch" /\ pc' # pc) => SchemaPatchSent]_vars

\* C12 witness: a non-simulation call has gone from the schema read to the
\* fetch without a schema patch, every category being present.
C12_Witness ==
    /\ ~dry_run
    /\ pc = "query"
    /\ Len(requests) = 1
    /\ Cardinality(CategoryNames) = 2
    /\ AllPresent


(***************************************************************************)
(* The palette: calls whose category map has more names than the palette   *)
(* has colours, so that the colour index wraps around.                     *)
(***************************************************************************)
MaxCategories == 10  \* names in the category map of the palette runs

TagNames == <<"T1", "T2", "T3", "T4", "T5", "T6", "T7", "T8", "T9", "T10", "T11", "T12">>

\* gene_categories: the first n tag names, each with the gene g1
PaletteMaps ==
    { [k \in 1..n |-> Cat(TagNames[k], <<"g1">>)] : n \in 0..MaxCategories }

\* database["properties"][multiselect_column] of the palette runs
PaletteSchemas ==
    { Absent,
      [type |-> "multi_select", value |-> <<>>],
      [type |-> "multi_select", value |-> <<Opt("T1", "pink")>>],
      [type |-> "multi_select", value |-> <<Opt("T3", "gray"), Opt("X", "gray"), Opt("T2", "red")>>] }

PaletteInit ==
    /\ gene_categories \in PaletteMaps
    /\ batch_size \in BatchSizes
    /\ dry_run = FALSE
    /\ remote_schema \in PaletteSchemas
    /\ remote_pages \in SeqsUpTo(PagesFor(remote_schema), 1)
    /\ run = 0
    /\ pc = "idle"
    /\ local = NoLocals
    /\ stats = NoStats
    /\ summary = NoStats
    /\ requests = <<>>
    /\ history = <<>>
    /\ trace = <<>>
    /\ clock = TicksPerSecond
    /\ rate_limiter = NewRateLimiter
    /\ waits = <<>>
    /\ AppIdle

SpecPalette == PaletteInit /\ [][Next]_vars

\* the options the current call appended to the existing ones
AppendedOptions ==
    SubSeq(local.new_options, Len(local.existing_options) + 1, Len(local.new_options))

\* the position (from 0) of a name among the keys of the category map
KeyIndex(name) ==
    (CHOOSE k \in 1..Len(gene_categories) : gene_categories[k].name = name) - 1

\* C13 as stated: the new value at index i, counting the new values from 0,
\* gets the colour i mod palette size of the palette.
C13_PaletteByNewIndexAsStated ==
    \A k \in 1..Len(AppendedOptions) :
        AppendedOptions[k].color = colors[((k - 1) % Len(colors)) + 1]

\* C13: every appended option is a category missing from the existing options
\* and gets the colour at index i mod palette size of the palette, where i is
\* the position (from 0) of the category among all keys of the category map.
C13_PaletteByKeyIndex ==
    \A k \in 1..Len(AppendedOptions) :
        /\ AppendedOptions[k].name \in CategoryNames
        /\ AppendedOptions[k].name \notin existing_names(local.existing_options)
        /\ AppendedOptions[k].color =
               colors[(KeyIndex(AppendedOptions[k].name) % Len(colors)) + 1]

C13_Witness ==
    /\ pc = "query" /\ ~dry_run
    /\ Len(requests) = 2 /\ requests[2].kind = "schema_patch"
    /\ requests[2].body = local.new_options
    /\ local.existing_options # <<>>
    /\ \E k \in 1..Len(AppendedOptions) :
           /\ KeyIndex(AppendedOptions[k].name) >= Len(colors)
           /\ AppendedOptions[k].color = "red"


(***************************************************************************)
(* The rate limiter on its own: one RateLimiter, called at arbitrary       *)
(* moments of a clock that never runs backwards, by one thread; a sleep    *)
(* lasts at least as long as asked and at most MaxLag ticks longer.        *)
(***************************************************************************)
MaxCalls == 3        \* calls of wait_if_needed on the limiter
MaxClock == 10       \* the latest moment a pause can end at
MaxStart == 5        \* the latest reading of the clock at construction
MaxLag == 1          \* ticks a sleep can overrun

\* the values of max_per_second: those whose interval is a whole number of ticks
RatesPerSecond == {2, 3, 6}

LimiterInit ==
    /\ gene_categories = <<>>
    /\ batch_size = 1
    /\ dry_run = FALSE
    /\ remote_schema = Absent
    /\ remote_pages = <<>>
    /\ run = 0
    /\ pc = "idle"
    /\ local = NoLocals
    /\ stats = NoStats
    /\ summary = NoStats
    /\ requests = <<>>
    /\ history = <<>>
    /\ trace = <<>>
    /\ clock \in 0..MaxStart
    /\ rate_limiter \in {RateLimiter(m) : m \in RatesPerSecond}
    /\ waits = <<>>
    /\ AppIdle

\* a call of RateLimiter.wait_if_needed, from its first line to its return
WaitIfNeeded ==
    /\ Len(waits) < MaxCalls
    /\ \E lag \in 0..MaxLag : wait_if_needed(lag)
    /\ UNCHANGED <<engine_vars, app_vars>>

\* time passes between two calls
Elapse ==
    /\ clock < MaxClock
    /\ clock' = clock + 1
    /\ UNCHANGED <<engine_vars, app_vars, rate_limiter, waits>>

LimiterNext ==
    \/ WaitIfNeeded
    \/ Elapse

SpecLimiter == LimiterInit /\ [][LimiterNext]_vars

\* C14: two consecutive returns of wait_if_needed on one limiter are at least
\* min_interval apart, and N calls take at least (N - 1) * min_interval from
\* the first return to the last.
C14_RateBound ==
    /\ \A k \in 2..Len(waits) :
           waits[k].returned - waits[k - 1].returned >= rate_limiter.min_interval
    /\ waits # <<>> =>
           /\ waits[Len(waits)].returned - waits[1].returned
                  >= (Len(waits) - 1) * rate_limiter.min_interval
           /\ clock >= waits[Len(waits)].returned
           /\ rate_limiter.min_interval * rate_limiter.max_per_second = TicksPerSecond

C14_Witness ==
    /\ Len(waits) >= 3
    /\ waits[2].slept > 0 /\ waits[2].slept < rate_limiter.min_interval
    /\ waits[3].slept = 0
    /\ waits[2].returned - waits[1].returned = rate_limiter.min_interval

\* C15: the first call of wait_if_needed on a fresh limiter does not sleep,
\* whatever the clock reads.
C15_FirstCallNeverSleeps == waits # <<>> => waits[1].slept = 0


\* the positions of the requests in the trace
RequestEvents == {k \in 1..Len(trace) : trace[k].event # "wait"}

\* the kinds of the requests of the trace, in order
TracedKinds ==
    LET reqs == SelectSeq(trace, LAMBDA e : e.event # "wait")
    IN  [k \in 1..Len(reqs) |-> reqs[k].event]

\* C16: every request of a call (schema read, schema patch, query, page
\* patch) comes right after a call of wait_if_needed of its own, with no
\* other request in between, and two requests are at least min_interval apart.
C16_EveryRequestRateLimited ==
    /\ TracedKinds = [k \in 1..Len(requests) |-> requests[k].kind]
    /\ \A k \in RequestEvents :
           /\ k > 1
           /\ trace[k - 1].event = "wait"
           /\ trace[k - 1].time = trace[k].time
    /\ Len(waits) = Cardinality(RequestEvents)
    /\ \A j, k \in RequestEvents :
           j < k => trace[k].time - trace[j].time >= rate_limiter.min_interval

C16_Witness ==
    /\ pc = "returned"
    /\ Len(requests) = 5
    /\ Len(trace) = 10
    /\ {requests[k].kind : k \in 1..Len(requests)}
           = {"schema_read", "schema_patch", "query", "page_patch"}


\* the position in all_pages of the record a page patch addresses
FetchPosition(id) == CHOOSE k \in 1..Len(local.all_pages) : local.all_pages[k].id = id

\* the requests of the current call are in the order schema, queries, page
\* patches, and the page patches follow the fetch order
RequestsInOrder ==
    \A j, k \in 1..Len(requests) :
        j < k =>
            /\ requests[j].kind = "page_patch" =>
                   /\ requests[k].kind = "page_patch"
                   /\ FetchPosition(requests[j].page_id) < FetchPosition(requests[k].page_id)
            /\ requests[j].kind = "query" => requests[k].kind \in {"query", "page_patch"}

\* every step of a call issues at most one request, and gets its answer
OneRequestAtATime ==
    \/ UNCHANGED requests
    \/ requests' = <<>>
    \/ /\ Len(requests') = Len(requests) + 1
       /\ SubSeq(requests', 1, Len(requests)) = requests
       /\ requests'[Len(requests')].status \in Statuses

\* C17: in every call all queries are answered before the first page patch is
\* issued, the requests are issued one at a time, each after the answer to the
\* one before, and the page patches are issued in fetch order.
C17_BatchOrdering == [](RequestsInOrder) /\ [][OneRequestAtATime]_vars

C17_Witness ==
    /\ pc = "returned"
    /\ Len(local.all_pages) = 2
    /\ Len(PagePatches) = 2
    /\ PagePatches[1].page_id = local.all_pages[1].id
    /\ PagePatches[2].page_id = local.all_pages[2].id
    /\ Len(RequestsOf("query")) = 1

\* the tags a processed record gains and loses
Added(k) ==
    ToSet(new_tags(local.all_pages[k], gene_categories))
        \ ToSet(existing_tags(local.all_pages[k]))

Removed(k) ==
    ToSet(existing_tags(local.all_pages[k]))
        \ ToSet(new_tags(local.all_pages[k], gene_categories))

\* the processed records that pages_updated counts: in a simulation those
\* whose tag set changes, otherwise those whose page patch was answered 200
CountedAsUpdated ==
    IF dry_run THEN Changed
    ELSE {k \in Processed :
            \E j \in 1..Len(requests) :
                /\ requests[j].kind = "page_patch"
                /\ requests[j].page_id = local.all_pages[k].id
                /\ requests[j].status = 200}

RECURSIVE SumOfSizes(_, _)
SumOfSizes(F(_), S) ==
    IF S = {} THEN 0
    ELSE LET k == CHOOSE x \in S : TRUE
         IN  Cardinality(F(k)) + SumOfSizes(F, S \ {k})

\* C18: when the call returns, tags_added and tags_removed are the sums of
\* the gained and of the lost tags over exactly the records counted in
\* pages_updated.
C18_StatisticsOverUpdatedRecords ==
    pc = "returned" =>
        /\ summary.pages_updated = Cardinality(CountedAsUpdated)
        /\ summary.tags_added = SumOfSizes(Added, CountedAsUpdated)
        /\ summary.tags_removed = SumOfSizes(Removed, CountedAsUpdated)


(***************************************************************************)
(* The identifier resolution: calls over one record whose candidate        *)
(* properties take every shape; the value of a property is its own name,   *)
(* so that the resolved identifier tells the property it was taken from.   *)
(***************************************************************************)
Shape(kind, name) ==
    CASE kind = "absent" -> Absent
      [] kind = "empty_text" -> Prop("rich_text", <<>>)
      [] kind = "null_select" -> Prop("select", <<>>)
      [] kind = "number" -> Prop("number", <<name>>)
      [] kind = "title" -> Prop("title", <<name>>)
      [] kind = "rich_text" -> Prop("rich_text", <<name>>)
      [] kind = "select" -> Prop("select", <<name>>)

\* the shapes of the first three candidates, of the fourth and of the fifth
EarlyShapes == {"absent", "empty_text", "number", "title", "select"}

NameShapes == {"absent", "null_select", "rich_text"}

TitleShapes == {"absent", "title"}

ShapedProps ==
    { [n \in ToSet(candidate_names) |->
          Shape(s[CHOOSE k \in 1..Len(candidate_names) : candidate_names[k] = n], n)] :
      s \in EarlyShapes \X EarlyShapes \X EarlyShapes \X NameShapes \X TitleShapes }

IdentInit ==
    /\ gene_categories = <<Cat("A", <<"Gene", "Title">>)>>
    /\ batch_size = 1
    /\ dry_run = FALSE
    /\ remote_schema = [type |-> "multi_select", value |-> <<Opt("X", "gray")>>]
    /\ remote_pages \in {<<Rec(p, <<>>)>> : p \in ShapedProps}
    /\ run = 0
    /\ pc = "idle"
    /\ local = NoLocals
    /\ stats = NoStats
    /\ summary = NoStats
    /\ requests = <<>>
    /\ history = <<>>
    /\ trace = <<>>
    /\ clock = TicksPerSecond
    /\ rate_limiter = NewRateLimiter
    /\ waits = <<>>
    /\ AppIdle

SpecIdent == IdentInit /\ [][Next]_vars

Recognised == {"title", "rich_text", "select"}

\* the candidates that are present with a non-empty value of a recognised shape
Hits(properties) ==
    {k \in 1..Len(candidate_names) :
        /\ properties[candidate_names[k]] # Absent
        /\ properties[candidate_names[k]].type \in Recognised
        /\ Len(properties[candidate_names[k]].value) > 0}

\* the value of the first of them, None when there is none
FirstMatch(properties) ==
    IF Hits(properties) = {} THEN None
    ELSE LET first == CHOOSE k \in Hits(properties) : \A j \in Hits(properties) : k <= j
         IN  properties[candidate_names[first]].value[1]

\* C19: the identifier resolved for a record is the value of the first
\* candidate, in the order gene_name, Gene Name, Gene, Name, Title, that is
\* present with a non-empty value of type title, rich_text or select; absent,
\* empty and other candidates are passed over, later candidates are not
\* looked at, and without such a candidate there is no identifier.
C19_FirstMatchWins ==
    (pc \in {"process", "returned"} /\ local.i > 1) =>
        /\ local.gene_name = FirstMatch(local.all_pages[local.i - 1].properties)
        /\ stats.genes_found = IF Hits(local.all_pages[local.i - 1].properties) = {}
                               THEN 0 ELSE 1

C19_Witness ==
    /\ pc = "returned"
    /\ local.gene_name = "Name"
    /\ local.all_pages[1].properties["gene_name"] = Prop("rich_text", <<>>)
    /\ local.all_pages[1].properties["Gene Name"] = Prop("number", <<"Gene Name">>)
    /\ local.all_pages[1].properties["Gene"] = Absent
    /\ local.all_pages[1].properties["Title"] = Prop("title", <<"Title">>)


\* the answer to the k-th request of the call was handled as an error: the
\* call raised on it, or the record of the page patch is in stats["errors"]
TreatedAsError(k) ==
    IF requests[k].kind = "page_patch"
    THEN requests[k].page_id \in ToSet(stats.errors)
    ELSE k = Len(requests) /\ pc = "raised"

\* the schema read found a column that is not a multi-select: the call raises
\* whatever the status
ColumnTypeError(k) ==
    /\ requests[k].kind = "schema_read"
    /\ remote_schema # Absent
    /\ remote_schema.type # "multi_select"

\* C20: an answer with a 2xx status to the schema read, the schema patch, a
\* query or a page patch is handled as a success, and an answer with any
\* other status as an error.
C20_SuccessIsAny2xx ==
    \A k \in 1..Len(requests) :
        /\ requests[k].status \notin 200..299 => TreatedAsError(k)
        /\ (requests[k].status \in 200..299 /\ ~ColumnTypeError(k)) => ~TreatedAsError(k)


\* the kinds of request a call issues: none creates or deletes a record
RequestKinds == {"schema_read", "schema_patch", "query", "page_patch"}

\* the records of the remote collection are the same ones, with the same
\* properties other than the tag field
RecordsKept ==
    /\ Len(remote_pages') = Len(remote_pages)
    /\ \A k \in 1..Len(remote_pages) :
           remote_pages'[k].properties = remote_pages[k].properties

\* each fetched record is addressed by at most one page patch of the call
OnePatchPerRecord ==
    /\ \A k \in 1..Len(requests) : requests[k].kind \in RequestKinds
    /\ \A j, k \in 1..Len(requests) :
           (/\ j # k
            /\ requests[j].kind = "page_patch"
            /\ requests[k].kind = "page_patch") =>
               requests[j].page_id # requests[k].page_id
    /\ \A k \in 1..Len(requests) :
           requests[k].kind = "page_patch" =>
               /\ requests[k].page_id \in {local.all_pages[j].id : j \in 1..Len(local.all_pages)}
               /\ requests[k].body = new_tags(FetchedPage(requests[k].page_id), gene_categories)

\* C21: in a call each fetched record gets at most one page patch, also when
\* the patch fails; no request creates or deletes a record; a page patch
\* carries the tag field only, so the other properties of a record stay.
C21_AtMostOnePatchPerRecord == [](OnePatchPerRecord) /\ [][RecordsKept]_vars

C21_Witness ==
    /\ pc = "returned"
    /\ Len(PagePatches) = 2
    /\ PagePatches[1].status = 500
    /\ PagePatches[1].page_id = 1
    /\ PagePatches[2].page_id = 2
    /\ stats.errors = <<1>>


\* C26: when the call returns, every fetched record is counted exactly once:
\* pages_updated + pages_skipped + len(errors) = total_pages = the number of
\* fetched records, in a simulation and otherwise.
C26_StatisticsPartition ==
    pc = "returned" =>
        /\ summary.total_pages = Len(local.all_pages)
        /\ summary.pages_updated + summary.pages_skipped + Len(summary.errors)
               = summary.total_pages
        /\ summary.pages_skipped = Cardinality(Processed \ Changed)
        /\ Processed = 1..Len(local.all_pages)

C26_Witness ==
    /\ pc = "returned"
    /\ ~dry_run
    /\ summary.total_pages = 2
    /\ summary.pages_skipped = 1
    /\ Len(summary.errors) = 1
    /\ \E h \in 1..Len(history) :
           /\ history[h].dry_run
           /\ history[h].stats.pages_updated = 1
           /\ history[h].stats.pages_skipped = 1

\* the target column exists remotely and is not a multi-select
WrongColumnType == remote_schema # Absent /\ remote_schema.type # "multi_select"

\* a call that finds such a column raises right after the schema read
RaisedAfterSchemaRead ==
    (WrongColumnType /\ run > 0) =>
        /\ pc \in {"schema_read", "raised"}
        /\ pc = "raised" =>
               /\ Len(requests) = 1
               /\ requests[1].kind = "schema_read"
        /\ stats = NoStats

\* C30: if the target column exists and is not of type multi_select, the call
\* raises after the schema read, before any schema patch, query or page
\* patch, and the remote schema and records stay as they were.
C30_WrongColumnTypeRaises ==
    [](RaisedAfterSchemaRead)
        /\ [][WrongColumnType => UNCHANGED <<remote_schema, remote_pages>>]_vars

C30_Witness ==
    /\ WrongColumnType
    /\ pc = "raised"
    /\ requests = <<Request("schema_read", 200, 0, 0, <<>>)>>
    /\ Len(remote_pages) = 2


(***************************************************************************)
(* make_api_request_with_retry (src/src/notion_utils/email_assistant.py):  *)
(* the loop of attempts against a service whose answers are arbitrary.     *)
(***************************************************************************)
MaxRetries == 3      \* the largest value of the max_retries argument

\* what session.post does in an attempt: a response comes back, with its
\* status and its retry-after header, or the request raises
Response(status, retry_after) ==
    [kind |-> "response", status_code |-> status, retry_after |-> retry_after]

Raises(exception) == [kind |-> exception, status_code |-> 0, retry_after |-> None]

PostOutcomes ==
    { Response(200, None), Response(400, None), Response(529, None),
      Response(429, None), Response(429, "5"), Response(429, "later"),
      Raises("Timeout"), Raises("ConnectionError") }

\* retry_after.isdigit() and int(retry_after)
isdigit(text) == text = "5"

int(text) == 5

\* a variant of CanRetry that ignores the number of attempts
CanRetryAlways(attempt, max_retries) == TRUE

\* if attempt < max_retries
CanRetry(attempt, max_retries) == attempt < max_retries

RECURSIVE Pow2(_)
Pow2(n) == IF n <= 0 THEN 1 ELSE 2 * Pow2(n - 1)

Continue(wait_time) == [action |-> "continue", wait_time |-> wait_time]

Raise == [action |-> "raise", wait_time |-> 0]

\* the body of "for attempt in range(max_retries + 1)": what the attempt
\* ends with, and the time it sleeps before the next one
Handle(outcome, attempt, max_retries) ==
    IF outcome.kind = "response" /\ outcome.status_code < 400
    THEN [action |-> "return", wait_time |-> 0]
    ELSE IF outcome.kind = "response"
    THEN \* except requests.exceptions.HTTPError
         IF outcome.status_code = 529
         THEN IF CanRetry(attempt, max_retries)
              THEN Continue(Pow2(attempt) * 2) ELSE Raise
         ELSE IF outcome.status_code = 429
         THEN IF outcome.retry_after # None /\ CanRetry(attempt, max_retries)
              THEN Continue(IF isdigit(outcome.retry_after)
                            THEN int(outcome.retry_after) ELSE 60)
              ELSE Raise
         ELSE Raise
    ELSE \* except requests.exceptions.RequestException
         IF CanRetry(attempt, max_retries)
         THEN Continue(Pow2(attempt)) ELSE Raise

\* the call begins: the loop is entered, or it has nothing to iterate over
StartedApi(max_retries) ==
    [NoApi EXCEPT !.max_retries = max_retries,
                  !.pc = IF max_retries + 1 > 0 THEN "attempt" ELSE "failed_after"]

RetryInit ==
    /\ gene_categories = <<>>
    /\ batch_size = 1
    /\ dry_run = FALSE
    /\ remote_schema = Absent
    /\ remote_pages = <<>>
    /\ run = 0
    /\ pc = "idle"
    /\ local = NoLocals
    /\ stats = NoStats
    /\ summary = NoStats
    /\ requests = <<>>
    /\ history = <<>>
    /\ trace = <<>>
    /\ clock = TicksPerSecond
    /\ rate_limiter = NewRateLimiter
    /\ waits = <<>>
    /\ api \in {[NoApi EXCEPT !.max_retries = m] : m \in (-1)..MaxRetries}
    /\ email = NoEmail
    /\ creator = NoCreator
    /\ flow = NoFlow

\* make_api_request_with_retry is called
CallApi ==
    /\ api.pc = "idle"
    /\ email.pc = "idle"
    /\ api' = StartedApi(api.max_retries)
    /\ UNCHANGED <<engine_vars, limiter_vars, email, creator, flow>>

\* one pass through the body of the loop, up to return, raise or continue;
\* when the loop ends after a continue, the function raises "Failed after"
Attempt ==
    /\ api.pc = "attempt"
    /\ \E outcome \in PostOutcomes :
        LET h == Handle(outcome, api.attempt, api.max_retries)
        IN  api' = [api EXCEPT
                !.posts = Append(@, [attempt |-> api.attempt, outcome |-> outcome,
                                     action |-> h.action, slept |-> h.wait_time]),
                !.attempt = IF h.action = "continue" THEN @ + 1 ELSE @,
                !.pc = IF h.action = "return" THEN "returned"
                       ELSE IF h.action = "raise" THEN "raised"
                       ELSE IF api.attempt + 1 > api.max_retries THEN "failed_after"
                       ELSE "attempt"]
    /\ UNCHANGED <<engine_vars, limiter_vars, email, creator, flow>>

RetryNext ==
    \/ CallApi
    \/ Attempt

SpecRetry == RetryInit /\ [][RetryNext]_vars

\* the call runs on: one thread, and every post and every sleep ends
SpecRetryFair == SpecRetry /\ WF_vars(RetryNext)

ApiDone == api.pc \in {"returned", "raised", "failed_after"}

LastPost == api.posts[Len(api.posts)]

\* at most max_retries + 1 posts; a return gives the JSON of a successful
\* response, a raise the error of the last attempt
AttemptsBounded ==
    /\ Len(api.posts) <= IF api.max_retries >= 0 THEN api.max_retries + 1 ELSE 0
    /\ api.pc = "attempt" => Len(api.posts) = api.attempt /\ api.attempt <= api.max_retries
    /\ api.pc = "returned" =>
           /\ LastPost.outcome = Response(200, None)
           /\ \A k \in 1..(Len(api.posts) - 1) : api.posts[k].action = "continue"
    /\ api.pc = "raised" =>
           /\ LastPost.outcome # Response(200, None)
           /\ LastPost.action = "raise"
           /\ \A k \in 1..(Len(api.posts) - 1) : api.posts[k].action = "continue"
    /\ api.max_retries >= 0 => api.pc # "failed_after"

\* C27: make_api_request_with_retry ends after at most max_retries + 1 posts,
\* whatever the answers: it returns the JSON of a successful response or
\* raises the error of the last attempt, and for max_retries >= 0 never
\* raises the trailing "Failed after N attempts".
C27_RetryTerminates == [](AttemptsBounded) /\ <>(ApiDone)

C27_Witness ==
    /\ api.pc = "raised"
    /\ api.max_retries = 3
    /\ Len(api.posts) = 4
    /\ api.posts[1].outcome = Response(529, None)
    /\ api.posts[2].outcome = Raises("Timeout")
    /\ api.posts[3].outcome = Response(429, "later")
    /\ api.posts[4].outcome = Response(529, None)

Transient(outcome) ==
    \/ outcome.kind = "Timeout"
    \/ outcome.kind = "response" /\ outcome.status_code \in {429, 529}

MaxTasks == 2        \* tasks in the model's response

\* make_api_request_with_retry(api_key, prompt_text, max_retries=3)
DefaultMaxRetries == 3

TODO_DATABASE_ID == "25ffd1e7c2e1800d9be9f8b38365b1c6"

\* Python values that a caller passes for the database parameter
PyStr(text) == [py_type |-> "str", value |-> text]

PyDict(dict) == [py_type |-> "dict", value |-> dict]

\* a database object of the service
Database(id, title) == [object |-> "database", id |-> id, title |-> title]

\* create_page_content: the non-empty paragraphs of the content
create_page_content(content) == SelectSeq(content, LAMBDA paragraph : paragraph # "")

\* create_page: database["id"] raises TypeError unless database is a dict;
\* the error, like a failure of notion.pages.create, is caught: no page, False
create_page(database, title, content, service_ok) ==
    IF database.py_type = "dict" /\ service_ok
    THEN [returned |-> TRUE,
          pages |-> <<[database_id |-> database.value.id,
                       title |-> title,
                       children |-> create_page_content(content)]>>]
    ELSE [returned |-> FALSE, pages |-> <<>>]

\* a task of the response; a task without title has title None
Task(title, due_date, note) == [title |-> title, due_date |-> due_date, note |-> note]

Tasks ==
    { Task("review", "2025-09-15", "read the draft"),
      Task("reply", "", ""),
      Task(None, "", "untitled") }

\* what json.loads(claude_response) gives: no JSON, or the list of tasks
InvalidJson == [valid |-> FALSE, tasks |-> <<>>]

ResponseData == {InvalidJson} \cup {[valid |-> TRUE, tasks |-> t] : t \in SeqsUpTo(Tasks, MaxTasks)}

\* content = f"Due date: {due_date}\n\n{note}" if due_date or note else ''
ContentOf(task) ==
    IF task.due_date # "" \/ task.note # ""
    THEN <<"Due date: " \o task.due_date, task.note>> ELSE <<>>

EmailInit ==
    /\ gene_categories = <<>>
    /\ batch_size = 1
    /\ dry_run = FALSE
    /\ remote_schema = Absent
    /\ remote_pages = <<>>
    /\ run = 0
    /\ pc = "idle"
    /\ local = NoLocals
    /\ stats = NoStats
    /\ summary = NoStats
    /\ requests = <<>>
    /\ history = <<>>
    /\ trace = <<>>
    /\ clock = TicksPerSecond
    /\ rate_limiter = NewRateLimiter
    /\ waits = <<>>
    /\ AppIdle

\* handle_email up to the call of make_api_request_with_retry; an input file
\* without apiKey ends it (KeyError, sys.exit(1))
HandleEmail ==
    /\ email.pc = "idle"
    /\ \E has_api_key \in BOOLEAN :
        IF has_api_key
        THEN /\ api' = StartedApi(DefaultMaxRetries)
             /\ email' = [email EXCEPT !.pc = "api"]
        ELSE /\ email' = [email EXCEPT !.pc = "exit"]
             /\ UNCHANGED api
    /\ UNCHANGED <<engine_vars, limiter_vars, creator, flow>>

\* the request raised: the error is printed and the process exits
ApiFailed ==
    /\ email.pc = "api"
    /\ api.pc \in {"raised", "failed_after"}
    /\ email' = [email EXCEPT !.pc = IF api.pc = "raised" THEN "exit" ELSE "raised"]
    /\ UNCHANGED <<engine_vars, limiter_vars, api, creator, flow>>

\* the request returned: the text of the response is parsed
ParseResponse ==
    /\ email.pc = "api"
    /\ api.pc = "returned"
    /\ \E response_data \in ResponseData :
        email' = IF response_data.valid
                 THEN [email EXCEPT !.pc = "tasks", !.tasks = response_data.tasks]
                 ELSE [email EXCEPT !.pc = "exit"]
    /\ UNCHANGED <<engine_vars, limiter_vars, api, creator, flow>>

\* one pass through the body of "for i, task in enumerate(...)": the page is
\* created with the id string of the task database, then the notification
PushTask ==
    /\ email.pc = "tasks"
    /\ email.i <= Len(email.tasks)
    /\ LET task == email.tasks[email.i]
       IN  IF task.title = None
           THEN email' = [email EXCEPT !.pc = "exit"]
           ELSE \E service_ok \in BOOLEAN :
                  LET created == create_page(PyStr(TODO_DATABASE_ID), task.title,
                                             ContentOf(task), service_ok)
                  IN  email' = [email EXCEPT
                          !.task_pages = @ \o created.pages,
                          !.notifications = Append(@, [title |-> task.title,
                                                       number |-> email.i]),
                          !.service_failed = @ \/ ~service_ok,
                          !.i = @ + 1]
    /\ UNCHANGED <<engine_vars, limiter_vars, api, creator, flow>>

\* the response is printed, base64-encoded
PrintEncoded ==
    /\ email.pc = "tasks"
    /\ email.i > Len(email.tasks)
    /\ email' = [email EXCEPT !.pc = "printed", !.printed = <<email.tasks>>]
    /\ UNCHANGED <<engine_vars, limiter_vars, api, creator, flow>>

EmailNext ==
    \/ HandleEmail
    \/ Attempt
    \/ ApiFailed
    \/ ParseResponse
    \/ PushTask
    \/ PrintEncoded

SpecEmail == EmailInit /\ [][EmailNext]_vars

\* C22: when the response is printed, the task database holds, in response
\* order, a page with the title of each task of the response (the service
\* being reachable), and one notification was sent for each task.
C22_TasksPushed ==
    (email.pc = "printed" /\ ~email.service_failed) =>
        /\ Len(email.notifications) = Len(email.tasks)
        /\ \A k \in 1..Len(email.tasks) :
               email.notifications[k].title = email.tasks[k].title
        /\ Len(email.task_pages) = Len(email.tasks)
        /\ \A k \in 1..Len(email.tasks) :
               /\ email.task_pages[k].title = email.tasks[k].title
               /\ email.task_pages[k].database_id = TODO_DATABASE_ID


(***************************************************************************)
(* NotionPageCreator (src/src/notion_utils/notion_page.py): the background *)
(* refresh.  refresh_cache_background is called by the main thread; each   *)
(* refresh_worker runs in a thread of its own, one statement at a time.    *)
(***************************************************************************)
MaxRefreshCalls == 2 \* calls of refresh_cache_background

MaxSearches == 2 \* passes through the search loop of one run

GenesDb == Database("db-genes", "Genes")

TasksDb == Database("db-tasks", "Tasks")

\* get_database_title(x).lower(), as a rank in the alphabet
TitleRank(database) == IF database.title = "Genes" THEN 1 ELSE 2

\* what the searches of the service return, duplicates included
RemoteDatabases ==
    { <<>>, <<TasksDb>>, <<TasksDb, GenesDb, TasksDb>> }

\* unique_databases: the first occurrence of every id, sorted by title
RECURSIVE Unique(_, _)
Unique(databases, seen) ==
    IF databases = <<>> THEN <<>>
    ELSE IF Head(databases).id \in seen THEN Unique(Tail(databases), seen)
    ELSE <<Head(databases)>> \o Unique(Tail(databases), seen \cup {Head(databases).id})

RECURSIVE SortedByTitle(_)
SortedByTitle(databases) ==
    IF databases = <<>> THEN <<>>
    ELSE LET least == CHOOSE k \in 1..Len(databases) :
                          \A j \in 1..Len(databases) :
                              \/ TitleRank(databases[k]) < TitleRank(databases[j])
                              \/ TitleRank(databases[k]) = TitleRank(databases[j]) /\ k <= j
         IN  <<databases[least]>>
                 \o SortedByTitle(SubSeq(databases, 1, least - 1)
                                      \o SubSeq(databases, least + 1, Len(databases)))

\* fetch_databases_comprehensive: the databases found, none when the search
\* fails; a non-empty result is saved to the cache file
fetch_databases_comprehensive(c, outcome) ==
    LET unique_databases ==
            IF outcome = "ok" THEN SortedByTitle(Unique(c.remote, {})) ELSE <<>>
    IN  [result |-> unique_databases,
         creator |-> IF unique_databases # <<>>
                     THEN [c EXCEPT !.cache = "fresh", !.cached = unique_databases]
                     ELSE c]

FetchOutcomes == {"ok", "fails", "raises"}

\* if self._refresh_in_progress: return
MayStart(c) == ~c.refresh_in_progress

\* refresh_cache_background: unless a refresh is flagged as in progress, a
\* worker thread is created and started
refresh_cache_background(c) ==
    IF MayStart(c)
    THEN [c EXCEPT !.workers = Append(@, [pc |-> "started", outcome |-> None,
                                          fresh |-> <<>>]),
                   !.refresh_thread = Len(c.workers) + 1,
                   !.calls = @ + 1]
    ELSE [c EXCEPT !.calls = @ + 1]

\* a variant of ShouldReplace that takes any list
ShouldReplaceAlways(fresh_databases) == TRUE

\* if fresh_databases: self.databases = fresh_databases
ShouldReplace(fresh_databases) == fresh_databases # <<>>

\* a variant of FlagAtEnd that leaves the flag set when the fetch raised
FlagAtEndUnlessRaised(outcome) == outcome = "raises"

\* finally: self._refresh_in_progress = False
FlagAtEnd(outcome) == FALSE

RefreshInit ==
    /\ gene_categories = <<>>
    /\ batch_size = 1
    /\ dry_run = FALSE
    /\ remote_schema = Absent
    /\ remote_pages = <<>>
    /\ run = 0
    /\ pc = "idle"
    /\ local = NoLocals
    /\ stats = NoStats
    /\ summary = NoStats
    /\ requests = <<>>
    /\ history = <<>>
    /\ trace = <<>>
    /\ clock = TicksPerSecond
    /\ rate_limiter = NewRateLimiter
    /\ waits = <<>>
    /\ api = NoApi
    /\ email = NoEmail
    /\ \E databases \in {<<>>, <<TasksDb>>}, remote \in RemoteDatabases :
           creator = [NoCreator EXCEPT !.databases = databases, !.remote = remote,
                                       !.cache = IF databases = <<>> THEN "none" ELSE "stale",
                                       !.cached = databases]
    /\ flow = NoFlow

\* the main thread calls refresh_cache_background
RefreshCacheBackground ==
    /\ flow.pc = "idle"
    /\ creator.calls < MaxRefreshCalls
    /\ creator' = refresh_cache_background(creator)
    /\ UNCHANGED <<engine_vars, limiter_vars, api, email, flow>>

\* refresh_worker, first statement: self._refresh_in_progress = True
WorkerBegin(w) ==
    /\ creator.workers[w].pc = "started"
    /\ creator' = [creator EXCEPT !.workers[w].pc = "fetching",
                                  !.refresh_in_progress = TRUE]
    /\ UNCHANGED <<engine_vars, limiter_vars, api, email, flow>>

\* refresh_worker, the try block: the fetch, and self.databases replaced by
\* a non-empty result; a raise is caught by the except clause
WorkerFetch(w) ==
    /\ creator.workers[w].pc = "fetching"
    /\ \E outcome \in FetchOutcomes :
        LET fetched == fetch_databases_comprehensive(creator, outcome)
            fresh_databases == fetched.result
        IN  creator' = [fetched.creator EXCEPT
                !.workers[w] = [pc |-> "finishing", outcome |-> outcome,
                                fresh |-> fresh_databases],
                !.databases = IF outcome # "raises" /\ ShouldReplace(fresh_databases)
                              THEN fresh_databases ELSE @]
    /\ UNCHANGED <<engine_vars, limiter_vars, api, email, flow>>

\* refresh_worker, the finally block
WorkerFinish(w) ==
    /\ creator.workers[w].pc = "finishing"
    /\ creator' = [creator EXCEPT
           !.workers[w].pc = "done",
           !.refresh_in_progress = FlagAtEnd(creator.workers[w].outcome)]
    /\ UNCHANGED <<engine_vars, limiter_vars, api, email, flow>>

Worker(w) ==
    /\ w \in DOMAIN creator.workers
    /\ WorkerBegin(w) \/ WorkerFetch(w) \/ WorkerFinish(w)

RefreshNext ==
    \/ RefreshCacheBackground
    \/ \E w \in DOMAIN creator.workers : WorkerBegin(w)
    \/ \E w \in DOMAIN creator.workers : WorkerFetch(w)
    \/ \E w \in DOMAIN creator.workers : WorkerFinish(w)

SpecRefresh == RefreshInit /\ [][RefreshNext]_vars

\* every started thread gets to run: the statements of a worker are taken
SpecRefreshFair ==
    SpecRefresh /\ \A w \in 1..MaxRefreshCalls : WF_vars(Worker(w))

RunningWorkers == {w \in DOMAIN creator.workers : creator.workers[w].pc # "done"}

\* C25: at every moment at most one refresh worker of a NotionPageCreator is
\* running: a call made while a refresh is started and not finished starts
\* no second worker.
C25_SingleRefreshWorker == Cardinality(RunningWorkers) <= 1


\* a step in which worker w leaves the try block
FetchStep(w) ==
    /\ w \in DOMAIN creator.workers
    /\ creator.workers[w].pc = "fetching"
    /\ creator'.workers[w].pc = "finishing"

\* C28: a background refresh that fetches nothing or fails leaves
\* self.databases as it was; self.databases is replaced only by the
\* non-empty list a worker has just fetched.
C28_FailedRefreshKeepsDatabases ==
    [][/\ creator'.databases # creator.databases =>
              \E w \in DOMAIN creator.workers :
                  /\ FetchStep(w)
                  /\ creator'.workers[w].outcome = "ok"
                  /\ creator'.databases # <<>>
                  /\ creator'.databases = creator'.workers[w].fresh
       /\ \A w \in DOMAIN creator.workers :
              (FetchStep(w) /\ \/ creator'.workers[w].outcome # "ok"
                               \/ creator'.workers[w].fresh = <<>>) =>
                  creator'.databases = creator.databases]_vars

C28_Witness ==
    /\ creator.databases = <<TasksDb>>
    /\ Len(creator.workers) = 2
    /\ creator.workers[1].pc = "done" /\ creator.workers[1].outcome = "fails"
    /\ creator.workers[2].pc = "done" /\ creator.workers[2].outcome = "ok"
    /\ creator.workers[2].fresh = <<>>

\* the flag is set only while a worker is between its first statement and
\* its finally block
FlagMeansRunning ==
    creator.refresh_in_progress =>
        \E w \in DOMAIN creator.workers : creator.workers[w].pc \in {"fetching", "finishing"}

WorkerStarted(w) == w \in DOMAIN creator.workers

WorkerDone(w) == WorkerStarted(w) /\ creator.workers[w].pc = "done"

\* C29: every started refresh worker eventually resets _refresh_in_progress
\* to False, whether the fetch succeeds, returns nothing or raises; the flag
\* is True only while a worker is running, so it does not stay set after the
\* workers have finished.
C29_FlagEventuallyReset ==
    /\ [](FlagMeansRunning)
    /\ \A w \in 1..MaxRefreshCalls : WorkerStarted(w) ~> WorkerDone(w)
    /\ creator.refresh_in_progress ~> ~creator.refresh_in_progress

C29_Witness ==
    /\ ~creator.refresh_in_progress
    /\ Len(creator.workers) = 2
    /\ creator.workers[1].pc = "done" /\ creator.workers[1].outcome = "raises"
    /\ creator.workers[2].pc = "done" /\ creator.workers[2].outcome = "fails"
    /\ creator.calls = 2


(***************************************************************************)
(* NotionPageCreator.run: direct mode and the interactive search flow,     *)
(* with the refresh workers running beside the main thread.                *)
(***************************************************************************)
\* the values of the database_id argument: none, the id of the task database
\* with and without dashes, an id the service does not know
DatabaseIds == {None, "db-tasks", "dbtasks", "db-unknown"}

\* database_id.replace('-', '')
clean_id(database_id) ==
    CASE database_id = "db-tasks" -> "dbtasks"
      [] database_id = "db-genes" -> "dbgenes"
      [] database_id = "db-unknown" -> "dbunknown"
      [] OTHER -> database_id

\* notion.databases.retrieve: the database with that id, if the service has it
Retrieve(c, id) ==
    SelectSeq(Unique(c.remote, {}), LAMBDA database : clean_id(database.id) = id)

\* validate_database_id: the database, or none when it cannot be retrieved
validate_database_id(c, database_id, service_ok) ==
    IF service_ok THEN Retrieve(c, clean_id(database_id)) ELSE <<>>

\* the age of the cache file against the limits of 3600 s and of 1800 s
CacheStates == {"none", "fresh", "stale", "outdated"}

\* load_cache: the cached list is taken when the file is at most an hour old
load_cache(c) ==
    IF c.cache \in {"none", "outdated"}
    THEN [loaded |-> FALSE, creator |-> c]
    ELSE [loaded |-> c.cached # <<>>, creator |-> [c EXCEPT !.databases = c.cached]]

\* start_background_refresh: a refresh if the file is older than 30 minutes
start_background_refresh(c) ==
    IF c.cache \in {"stale", "outdated"} THEN refresh_cache_background(c) ELSE c

\* a variant of NeedsSearch that always searches
NeedsSearchAlways(selected_database) == TRUE

\* if not selected_database
NeedsSearch(selected_database) == selected_database = <<>>

Titles == {"", "Buy milk"}

Contents == {<<>>, <<"two litres", "">>}

CreatorInit ==
    /\ gene_categories = <<>>
    /\ batch_size = 1
    /\ dry_run = FALSE
    /\ remote_schema = Absent
    /\ remote_pages = <<>>
    /\ run = 0
    /\ pc = "idle"
    /\ local = NoLocals
    /\ stats = NoStats
    /\ summary = NoStats
    /\ requests = <<>>
    /\ history = <<>>
    /\ trace = <<>>
    /\ clock = TicksPerSecond
    /\ rate_limiter = NewRateLimiter
    /\ waits = <<>>
    /\ api = NoApi
    /\ email = NoEmail
    /\ \E remote \in RemoteDatabases, cache \in CacheStates, cached \in {<<>>, <<TasksDb>>} :
           /\ cache = "none" => cached = <<>>
           /\ creator = [NoCreator EXCEPT !.remote = remote, !.cache = cache,
                                          !.cached = cached]
    /\ flow = NoFlow

\* run, up to the search flow: the id, if given, is validated
Run ==
    /\ flow.pc = "idle"
    /\ \E database_id \in DatabaseIds, service_ok \in BOOLEAN :
        LET selected_database ==
                IF database_id # None
                THEN validate_database_id(creator, database_id, service_ok) ELSE <<>>
        IN  flow' = [flow EXCEPT
                !.database_id = database_id,
                !.validated = selected_database # <<>>,
                !.selected_database = selected_database,
                !.events = IF database_id # None THEN <<"validate_database_id">> ELSE <<>>,
                !.pc = IF NeedsSearch(selected_database) THEN "initialize" ELSE "input"]
    /\ UNCHANGED <<engine_vars, limiter_vars, api, email, creator>>

\* initialize_databases: the cache, or else a fetch; run returns without
\* databases
InitializeDatabases ==
    /\ flow.pc = "initialize"
    /\ LET cache == load_cache(creator)
       IN  IF cache.loaded
           THEN /\ creator' = cache.creator
                /\ flow' = [flow EXCEPT !.events = Append(@, "load_cache"),
                                        !.pc = "search"]
           ELSE \E outcome \in {"ok", "fails"} :
                  LET fetched == fetch_databases_comprehensive(cache.creator, outcome)
                  IN  /\ creator' = [fetched.creator EXCEPT !.databases = fetched.result]
                      /\ flow' = [flow EXCEPT
                             !.events = @ \o <<"load_cache", "fetch">>,
                             !.pc = IF Len(fetched.result) > 0 THEN "search" ELSE "done"]
    /\ UNCHANGED <<engine_vars, limiter_vars, api, email>>

\* the passes through the search loop so far
Searches == Cardinality({k \in 1..Len(flow.events) : flow.events[k] = "search_prompt"})

\* one pass through the body of the search loop: the prompt, the search over
\* self.databases, the selection, the question whether to search again
Search ==
    /\ flow.pc = "search"
    /\ Searches < MaxSearches
    /\ \E search_term \in {"quit", "", "tasks"} :
        IF search_term = "quit"
        THEN flow' = [flow EXCEPT !.events = Append(@, "search_prompt"), !.pc = "done"]
        ELSE IF search_term = ""
        THEN flow' = [flow EXCEPT !.events = Append(@, "search_prompt")]
        ELSE \E choice \in 0..Len(creator.databases), again \in BOOLEAN :
               flow' = [flow EXCEPT
                   !.events = Append(@, "search_prompt"),
                   !.selected_database =
                       IF choice = 0 THEN <<>> ELSE <<creator.databases[choice]>>,
                   !.pc = IF choice # 0 THEN "input"
                          ELSE IF again THEN "search" ELSE "done"]
    /\ UNCHANGED <<engine_vars, limiter_vars, api, email, creator>>

\* get_user_input_with_background_refresh, up to the prompt for the title
StartInput ==
    /\ flow.pc = "input"
    /\ creator' = start_background_refresh(creator)
    /\ flow' = [flow EXCEPT !.pc = "typing"]
    /\ UNCHANGED <<engine_vars, limiter_vars, api, email>>

\* the title and the content are read; run returns on an empty title or when
\* the input is interrupted
ReadInput ==
    /\ flow.pc = "typing"
    /\ \E title \in Titles, content \in Contents, interrupted \in BOOLEAN :
        flow' = IF title = "" \/ interrupted
                THEN [flow EXCEPT !.pc = "done"]
                ELSE [flow EXCEPT !.title = title, !.content = content, !.pc = "create"]
    /\ UNCHANGED <<engine_vars, limiter_vars, api, email, creator>>

\* self.create_page(selected_database, title, content)
CreatePage ==
    /\ flow.pc = "create"
    /\ \E service_ok \in BOOLEAN :
        LET created == create_page(PyDict(flow.selected_database[1]), flow.title,
                                   flow.content, service_ok)
        IN  flow' = [flow EXCEPT !.pages = @ \o created.pages,
                                 !.events = Append(@, "create_page"),
                                 !.pc = "done"]
    /\ UNCHANGED <<engine_vars, limiter_vars, api, email, creator>>

CreatorNext ==
    \/ Run
    \/ InitializeDatabases
    \/ Search
    \/ StartInput
    \/ ReadInput
    \/ CreatePage
    \/ \E w \in DOMAIN creator.workers : WorkerBegin(w)
    \/ \E w \in DOMAIN creator.workers : WorkerFetch(w)
    \/ \E w \in DOMAIN creator.workers : WorkerFinish(w)

SpecCreator == CreatorInit /\ [][CreatorNext]_vars

Happened(event) == \E k \in 1..Len(flow.events) : flow.events[k] = event

\* the given id was accepted by validate_database_id
DirectMode == flow.database_id # None /\ flow.validated

\* a refresh worker has run the fetch
WorkerFetched ==
    \E w \in DOMAIN creator.workers : creator.workers[w].pc \in {"finishing", "done"}

\* direct mode bypasses the search flow, a failed validation falls back to
\* it, and a page is created only in the selected database with a title
DirectModeFlow ==
    /\ DirectMode =>
           /\ ~Happened("load_cache") /\ ~Happened("fetch") /\ ~Happened("search_prompt")
           /\ flow.pc # "initialize" /\ flow.pc # "search"
           /\ \A k \in 1..Len(flow.pages) :
                  clean_id(flow.pages[k].database_id) = clean_id(flow.database_id)
    /\ (flow.database_id # None /\ ~flow.validated /\ flow.pc = "done") =>
           Happened("load_cache")
    /\ \A k \in 1..Len(flow.pages) :
           /\ flow.pages[k].title # ""
           /\ flow.selected_database # <<>>
           /\ flow.pages[k].database_id = flow.selected_database[1].id
    /\ Len(flow.pages) <= 1

\* C24 as stated: in direct mode no database fetch happens at all.
C24_DirectModeNoFetchAsStated ==
    /\ DirectModeFlow
    /\ DirectMode => ~WorkerFetched

\* C24: with a database_id that validate_database_id accepts, run bypasses
\* the search flow (no cache load, no fetch by initialize_databases, no search
\* prompt) and creates the page in that database; the only fetch is the
\* background refresh started at the title prompt when the cache file is
\* older than 30 minutes.  When validation fails run goes through the search
\* flow; a page is created only with a selected database and a title.
C24_DirectMode ==
    /\ DirectModeFlow
    /\ (DirectMode /\ creator.workers # <<>>) =>
           /\ Len(creator.workers) = 1
           /\ flow.pc \in {"typing", "create", "done"}
           /\ creator.cache # "none"

C24_Witness ==
    /\ DirectMode
    /\ flow.database_id = "db-tasks"
    /\ flow.pc = "done"
    /\ flow.events = <<"validate_database_id", "create_page">>
    /\ flow.pages = <<[database_id |-> "db-tasks", title |-> "Buy milk",
                       children |-> <<"two litres">>]>>
    /\ WorkerFetched

=============================================================================
